---- MODULE Spec2Model ----
(***************************************************************************)
(* Resilience layer of go-invoice-ninja: the sliding-window RateLimiter    *)
(* (RateLimiter.Wait) and the retry loop built on it                       *)
(* (RateLimitedClient.DoRequestWithRetry, shouldRetry, calculateBackoff).  *)
(*                                                                         *)
(* Time is a discrete clock.  One tick is 1/WindowSize of the limiter's    *)
(* one-second window.  Every goroutine of the program is one process of    *)
(* Procs; a process runs one top-level call, either RateLimiter.Wait or    *)
(* DoRequestWithRetry, against the one limiter and the one retry           *)
(* configuration of the client.  A DoRequestWithRetry call meets the other *)
(* goroutines only in the limiter, through its Wait calls.                 *)
(***************************************************************************)
EXTENDS Integers, Sequences, FiniteSets

\* ---------------------------------------------------------------- bounds
NumProcs == 2
MaxCapacity == 2
MaxTime == 2
MaxRetriesBound == 1
MaxAttempt == 5

\* ------------------------------------------------------ program constants
\* windowSize: time.Second, in ticks
WindowSize == 2
\* the fixed backoff of a 429, 60 * time.Second, in milliseconds
RateLimitedBackoff == 60000
\* http.StatusTooManyRequests
StatusTooManyRequests == 429
\* big.NewInt(1000): the jitter draw is in 0..JitterRange-1
JitterRange == 1000
\* NewRateLimiter(10), the limiter of NewRateLimitedClient
DefaultRequestsPerSecond == 10

Procs == 1..NumProcs

\* The goroutines that may call DoRequestWithRetry; the others call
\* limiter.Wait directly.  The limiter sees the Wait calls of both alike.
RetryCallers == {1}

\* The goroutines that call with a ctx that can be cancelled; the others
\* call with context.Background(), which is never done.
CancellableCallers == {1, 2}

\* ------------------------------------------------------------ error values
\* A Go error value.  kind "nil" is the nil error, "ctx" is ctx.Err(),
\* "api" is *APIError (parseAPIError, status >= 400), "net" is the wrapped
\* transport error of httpClient.Do / io.ReadAll, "decode" is the wrapped
\* json.Unmarshal error of a response whose status is below 400.
\* "pending" marks a call that has not returned.
NilErr == [kind |-> "nil", StatusCode |-> 0]
CtxErr == [kind |-> "ctx", StatusCode |-> 0]
NetErr == [kind |-> "net", StatusCode |-> 0]
DecodeErr == [kind |-> "decode", StatusCode |-> 0]
Pending == [kind |-> "pending", StatusCode |-> 0]
APIError(status) == [kind |-> "api", StatusCode |-> status]

\* the status codes the server is taken to answer with
StatusCodes == {400, 404, 429, 500}

\* what one doRequest call can return
Outcomes == {NilErr, NetErr, DecodeErr} \cup {APIError(s) : s \in StatusCodes}

\* errors.As(err, &apiErr)
IsAPIError(err) == err.kind = "api"

\* ------------------------------------------------------------ RateLimiter
After_Early(t, cutoff) == t > cutoff + 1

\* t.After(cutoff)
After(t, cutoff) == t > cutoff

\* the loop of Wait that keeps the timestamps inside the window
RECURSIVE validRequests(_, _)
validRequests(reqs, cutoff) ==
    IF reqs = << >> THEN << >>
    ELSE IF After(Head(reqs), cutoff)
         THEN <<Head(reqs)>> \o validRequests(Tail(reqs), cutoff)
         ELSE validRequests(Tail(reqs), cutoff)

AtLimit_Above(reqs, limit) == Len(reqs) > limit

AtLimit_OneEarly(reqs, limit) == Len(reqs) + 1 >= limit

\* len(r.requests) >= r.requestsLimit
AtLimit(reqs, limit) == Len(reqs) >= limit

\* oldestRequest.Add(r.windowSize).Sub(now)
WaitTime(oldest, tnow) == (oldest + WindowSize) - tnow

VARIABLES
    clock,          \* time.Now()
    mu,             \* RateLimiter.mu: 0 when unlocked, else the holder
    requestsLimit,  \* RateLimiter.requestsLimit
    requests,       \* RateLimiter.requests
    retryConfig,    \* RateLimitedClient.retryConfig
    pc,             \* where each goroutine stands
    op,             \* the top-level call a goroutine runs
    cancelled,      \* whether the goroutine's ctx is done
    timer,          \* deadline of the time.After timer of Wait, 0 if none
    fired,          \* whether the time.After timer of the backoff has fired
    woken,          \* the case a select was resolved to
    attempt,        \* DoRequestWithRetry's loop variable
    lastErr,        \* DoRequestWithRetry's lastErr
    backoff,        \* DoRequestWithRetry's local backoff, milliseconds
    result,         \* return value of the top-level call
    calls,          \* history: doRequest calls made by the top-level call
    retryable,      \* history: doRequest failures of a retryable class
    recorded,       \* history: timestamps appended by the top-level call
    slept,          \* history: the call took the limit branch of Wait
    issued,         \* history: number of Wait calls begun on the limiter
    inWindow,       \* history: admissions of the trailing window
    request,        \* the arguments the application calls the client with
    sent,           \* history: the arguments doRequest was called with
    backoffArgs,    \* the arguments of a calculateBackoff call on its own
    backoffRet,     \* what that calculateBackoff call returned
    parseArgs,      \* the arguments of a parseAPIError call on its own
    parseRet,       \* what the parseAPIError calls on them returned, in order
    secret,         \* WebhookHandler.secret
    handlers,       \* WebhookHandler.handlers
    lastOn,         \* history: the arguments of the latest On call
    inbound,        \* the requests that can reach each serving goroutine
    hpc,            \* where each HandleRequest call stands
    hreq,           \* r: the *http.Request of the HandleRequest call
    hbody,          \* HandleRequest's local body
    hevent,         \* HandleRequest's local event
    hhandler,       \* HandleRequest's local handler
    written,        \* the status codes written to w, in order
    invoked,        \* history: the handler invocations of the call, in order
    trail           \* history: the stages the call has run, in order

clientVars == <<clock, mu, requestsLimit, requests, retryConfig, pc, op,
                cancelled, timer, fired, woken, attempt, lastErr, backoff,
                result, calls, retryable, recorded, slept, issued, inWindow,
                request, sent>>

\* the state of a calculateBackoff call made on its own
backoffVars == <<backoffArgs, backoffRet>>

\* the state of the webhook handler and of its HandleRequest calls
hookVars == <<secret, handlers, lastOn, inbound, hpc, hreq, hbody, hevent,
              hhandler, written, invoked, trail>>

\* the state of parseAPIError calls made on their own
parseVars == <<parseArgs, parseRet>>

\* the state the operations of the client leave alone
besideClient == <<backoffVars, parseVars, hookVars>>

vars == <<clientVars, besideClient>>

limiterVars == <<mu, requestsLimit, requests>>
retryVars == <<attempt, lastErr, backoff, calls, retryable, fired>>

\* ------------------------------------------------------------ retry policy
DefaultRetryOnStatusCodes == {429, 500, 502, 503, 504}

\* DefaultRetryConfig(), durations in milliseconds
DefaultRetryConfig ==
    [MaxRetries         |-> 3,
     InitialBackoff     |-> 1000,
     MaxBackoff         |-> 30000,
     BackoffMultiplier  |-> 2,
     RetryOnStatusCodes |-> DefaultRetryOnStatusCodes,
     Jitter             |-> TRUE]

\* the configurations the client runs with: the default one with any
\* MaxRetries (SetRetryConfig takes a negative one too) and with the default
\* codes or a list of the caller's
RetryConfigs ==
    {[DefaultRetryConfig EXCEPT !.MaxRetries = m,
                                !.RetryOnStatusCodes = c] :
        m \in -1..MaxRetriesBound,
        c \in {DefaultRetryOnStatusCodes, {404, 500}}}

\* the draws of rand.Int(rand.Reader, big.NewInt(1000)) that are explored
JitterDraws == {0, JitterRange - 1}

shouldRetry_AnyStatus(err, att, cfg) == att < cfg.MaxRetries

shouldRetry_NotInList(err, att, cfg) ==
    IF att >= cfg.MaxRetries THEN FALSE
    ELSE IF ~IsAPIError(err) THEN TRUE
    ELSE err.StatusCode \notin cfg.RetryOnStatusCodes

shouldRetry_NoAttemptLimit(err, att, cfg) ==
    IF ~IsAPIError(err) THEN TRUE
    ELSE err.StatusCode \in cfg.RetryOnStatusCodes

\* RateLimitedClient.shouldRetry
shouldRetry(err, att, cfg) ==
    IF att >= cfg.MaxRetries THEN FALSE
    ELSE IF ~IsAPIError(err) THEN TRUE
    ELSE err.StatusCode \in cfg.RetryOnStatusCodes

\* math.Pow for a whole base and a whole exponent >= 0
RECURSIVE Pow(_, _)
Pow(b, e) == IF e <= 0 THEN 1 ELSE b * Pow(b, e - 1)

calculateBackoff_NoCap(att, err, cfg, randInt) ==
    IF IsAPIError(err) /\ err.StatusCode = StatusTooManyRequests
    THEN RateLimitedBackoff
    ELSE cfg.InitialBackoff * Pow(cfg.BackoffMultiplier, att)

calculateBackoff_CapAll(att, err, cfg, randInt) ==
    LET base == IF IsAPIError(err) /\ err.StatusCode = StatusTooManyRequests
                THEN RateLimitedBackoff
                ELSE cfg.InitialBackoff * Pow(cfg.BackoffMultiplier, att)
    IN  IF base > cfg.MaxBackoff THEN cfg.MaxBackoff ELSE base

\* (randInt / 1000.0) * 0.3 * backoff, rounded down to whole milliseconds:
\* randInt * 3 * base \div (10 * JitterRange), computed on the quotient and
\* the remainder of base so that the product stays small
Jitter(randInt, base) ==
    LET unit == 10 * JitterRange
    IN  randInt * 3 * (base \div unit) + (randInt * 3 * (base % unit)) \div unit

\* RateLimitedClient.calculateBackoff, in milliseconds; randInt is the draw
\* of rand.Int.  time.Duration(backoff) truncates the float, here to whole
\* milliseconds.
calculateBackoff(att, err, cfg, randInt) ==
    IF IsAPIError(err) /\ err.StatusCode = StatusTooManyRequests
    THEN RateLimitedBackoff
    ELSE LET base == cfg.InitialBackoff * Pow(cfg.BackoffMultiplier, att)
             jittered == IF cfg.Jitter
                         THEN base + Jitter(randInt, base)
                         ELSE base
         IN  IF jittered > cfg.MaxBackoff THEN cfg.MaxBackoff ELSE jittered

\* a call with every argument given: method, path, query url.Values and
\* body, each a value of its own
GenericRequest ==
    [method |-> "POST", path |-> "/api/v1/products",
     query |-> "per_page=1", body |-> "product"]

\* the arguments and the result of a call that is not made
NoArgs == [none |-> TRUE]

\* --------------------------------------------------------- WebhookHandler
\* the goroutines of the host server that call HandleRequest
Hooks == {1, 2}

\* net/http status codes
StatusOK == 200
StatusBadRequest == 400
StatusUnauthorized == 401
StatusMethodNotAllowed == 405
StatusInternalServerError == 500

\* a local variable that is not assigned yet
Unset == [unset |-> TRUE]

\* Raw request bodies.  text stands for the bytes; wellFormed tells whether
\* json.Unmarshal into a WebhookEvent succeeds on them, event_type and data
\* are the members it then finds.
InvoiceBody ==
    [text |-> "invoice", wellFormed |-> TRUE,
     event_type |-> "invoice.created", data |-> "inv123"]
PaymentBody ==
    [text |-> "payment", wellFormed |-> TRUE,
     event_type |-> "payment.created", data |-> "pay123"]
UnknownBody ==
    [text |-> "unknown", wellFormed |-> TRUE,
     event_type |-> "unknown.event", data |-> "{}"]
MalformedBody ==
    [text |-> "malformed", wellFormed |-> FALSE,
     event_type |-> "", data |-> ""]

Bodies == {InvoiceBody, PaymentBody, UnknownBody, MalformedBody}

\* json.Unmarshal(body, &event)
Unmarshal(body) ==
    IF body.wellFormed
    THEN [ok |-> TRUE,
          event |-> [EventType |-> body.event_type, Data |-> body.data]]
    ELSE [ok |-> FALSE, event |-> Unset]

\* A header value is a sequence of tokens, << >> being the empty string of
\* an absent or empty header.  A token is the text "sha256=" or the hex
\* text of an HMAC-SHA256, which is taken to differ whenever the key or the
\* message differs.
Sha256Prefix == [token |-> "sha256=", key |-> "", payload |-> ""]

\* hex.EncodeToString of the HMAC-SHA256 of payload under key
HexHMAC(key, payload) == [token |-> "hex", key |-> key, payload |-> payload.text]

\* strings.TrimPrefix(signature, "sha256=")
TrimPrefix(signature) ==
    IF signature # << >> /\ Head(signature) = Sha256Prefix
    THEN Tail(signature)
    ELSE signature

verifySignature_AnyKey(payload, signature, key) ==
    /\ signature # << >>
    /\ Len(TrimPrefix(signature)) = 1
    /\ TrimPrefix(signature)[1].token = "hex"
    /\ TrimPrefix(signature)[1].payload = payload.text

\* WebhookHandler.verifySignature, key being h.secret
verifySignature(payload, signature, key) ==
    IF signature = << >> THEN FALSE
    ELSE TrimPrefix(signature) = <<HexHMAC(key, payload)>>

PresentedSignature_PrimaryOnly(req) == req.primary

\* r.Header.Get("X-Ninja-Signature") and, if that is empty,
\* r.Header.Get("X-Invoice-Ninja-Signature")
PresentedSignature(req) ==
    IF req.primary = << >> THEN req.alternate ELSE req.primary

\* the secrets a handler is constructed with, "" for none
Secrets == {"", "whsec"}

\* the keys a sender signs with: the secret of the handler and another one
SenderKeys == {"whsec", "other"}

\* the values a sender puts in a signature header of a request with body b
SignatureValues(b) ==
    {<< >>, <<Sha256Prefix, Sha256Prefix, HexHMAC("whsec", b)>>}
        \cup {<<HexHMAC(k, b)>> : k \in SenderKeys}
        \cup {<<Sha256Prefix, HexHMAC("whsec", b)>>}

\* the requests a sender can deliver: readable tells whether
\* io.ReadAll(r.Body) succeeds
Deliveries ==
    UNION {[method : {"POST", "GET"}, readable : BOOLEAN, body : {b},
            primary : SignatureValues(b), alternate : SignatureValues(b)] :
           b \in Bodies}

\* the event types handlers are registered for
EventTypes == {"invoice.created", "payment.created"}

\* the handler functions of the application
HandlerFuncs == {"f", "g"}

\* handler, ok := h.handlers[eventType]
Registered(registry, eventType) == eventType \in DOMAIN registry

\* no request is being handled
NoRequestYet ==
    /\ hpc = [h \in Hooks |-> "idle"]
    /\ hreq = [h \in Hooks |-> Unset]
    /\ hbody = [h \in Hooks |-> Unset]
    /\ hevent = [h \in Hooks |-> Unset]
    /\ hhandler = [h \in Hooks |-> ""]
    /\ written = [h \in Hooks |-> << >>]
    /\ invoked = [h \in Hooks |-> << >>]
    /\ trail = [h \in Hooks |-> << >>]

\* NewWebhookHandler(""), and no request arrives
HookIdle ==
    /\ secret = ""
    /\ handlers = << >>
    /\ lastOn = NoArgs
    /\ inbound = [h \in Hooks |-> {}]
    /\ NoRequestYet

\* ------------------------------------------------------------------- Init
\* the limiter is fresh, no call is in progress
NoCallYet ==
    /\ clock = 0
    /\ mu = 0
    /\ requests = << >>
    /\ pc = [p \in Procs |-> "idle"]
    /\ op = [p \in Procs |-> "none"]
    /\ cancelled = [p \in Procs |-> FALSE]
    /\ timer = [p \in Procs |-> 0]
    /\ fired = [p \in Procs |-> FALSE]
    /\ woken = [p \in Procs |-> "none"]
    /\ attempt = [p \in Procs |-> 0]
    /\ lastErr = [p \in Procs |-> NilErr]
    /\ backoff = [p \in Procs |-> 0]
    /\ result = [p \in Procs |-> Pending]
    /\ calls = [p \in Procs |-> 0]
    /\ retryable = [p \in Procs |-> 0]
    /\ recorded = [p \in Procs |-> 0]
    /\ slept = [p \in Procs |-> FALSE]
    /\ issued = 0
    /\ inWindow = << >>
    /\ request = GenericRequest
    /\ sent = {}

\* the client after NewRateLimitedClient, SetRateLimit and SetRetryConfig
ClientInit ==
    /\ requestsLimit \in 0..MaxCapacity
    /\ retryConfig \in RetryConfigs
    /\ NoCallYet

\* the client right after NewRateLimitedClient, left at rest
ClientAtRest ==
    /\ requestsLimit = DefaultRequestsPerSecond
    /\ retryConfig = DefaultRetryConfig
    /\ NoCallYet

\* no calculateBackoff call is made on its own
BackoffIdle ==
    /\ backoffArgs = NoArgs
    /\ backoffRet = NoArgs

\* no parseAPIError call is made on its own
ParseIdle ==
    /\ parseArgs = NoArgs
    /\ parseRet = << >>

Init ==
    /\ ClientInit
    /\ BackoffIdle
    /\ ParseIdle
    /\ HookIdle

\* ------------------------------------------------------- RateLimiter.Wait
\* A Wait call returns err to its caller.  Called directly, the goroutine is
\* done; called from DoRequestWithRetry, an error is returned at once and
\* nil leads to the doRequest call.
WaitReturn(p, err) ==
    IF op[p] = "Wait" \/ err # NilErr
    THEN /\ pc' = [pc EXCEPT ![p] = "done"]
         /\ result' = [result EXCEPT ![p] = err]
    ELSE /\ pc' = [pc EXCEPT ![p] = "r_call"]
         /\ UNCHANGED result

\* a goroutine calls limiter.Wait(ctx); c tells whether ctx is already done
CallWait(p, c) ==
    /\ pc[p] = "idle"
    /\ c => p \in CancellableCallers
    /\ op' = [op EXCEPT ![p] = "Wait"]
    /\ cancelled' = [cancelled EXCEPT ![p] = c]
    /\ pc' = [pc EXCEPT ![p] = "w_lock"]
    /\ issued' = issued + 1
    /\ UNCHANGED <<clock, limiterVars, retryConfig, timer, woken, retryVars,
                   result, recorded, slept, inWindow>>
    /\ UNCHANGED <<request, sent, besideClient>>

WaitAtLimit_SleepsLocked(p) ==
    /\ pc[p] = "w_lock"
    /\ mu = 0
    /\ LET tnow == clock
           valid == validRequests(requests, tnow - WindowSize)
       IN  /\ AtLimit(valid, requestsLimit)
           /\ requests' = valid
           /\ IF valid = << >>
              THEN /\ mu' = p
                   /\ pc' = [pc EXCEPT ![p] = "panic"]
                   /\ UNCHANGED <<timer, slept>>
              ELSE /\ mu' = p
                   /\ slept' = [slept EXCEPT ![p] = TRUE]
                   /\ IF WaitTime(valid[1], tnow) > 0
                      THEN /\ timer' = [timer EXCEPT ![p] =
                                          tnow + WaitTime(valid[1], tnow)]
                           /\ pc' = [pc EXCEPT ![p] = "w_select"]
                      ELSE /\ pc' = [pc EXCEPT ![p] = "w_lock"]
                           /\ UNCHANGED timer
    /\ UNCHANGED <<clock, requestsLimit, retryConfig, op, cancelled, woken,
                   retryVars, result, recorded, issued, inWindow>>
    /\ UNCHANGED <<request, sent, besideClient>>

\* One pass of the critical section that ends in the limit branch:
\* Lock, now := time.Now(), the pruning loop, the limit check,
\* r.requests[0] (a run-time panic on an empty list, the mutex still held),
\* waitTime, Unlock, and time.After(waitTime) or continue.  The timer is
\* taken to start at now.
WaitAtLimit(p) ==
    /\ pc[p] = "w_lock"
    /\ mu = 0
    /\ LET tnow == clock
           valid == validRequests(requests, tnow - WindowSize)
       IN  /\ AtLimit(valid, requestsLimit)
           /\ requests' = valid
           /\ IF valid = << >>
              THEN /\ mu' = p
                   /\ pc' = [pc EXCEPT ![p] = "panic"]
                   /\ UNCHANGED <<timer, slept>>
              ELSE /\ mu' = 0
                   /\ slept' = [slept EXCEPT ![p] = TRUE]
                   /\ IF WaitTime(valid[1], tnow) > 0
                      THEN /\ timer' = [timer EXCEPT ![p] =
                                          tnow + WaitTime(valid[1], tnow)]
                           /\ pc' = [pc EXCEPT ![p] = "w_select"]
                      ELSE /\ pc' = [pc EXCEPT ![p] = "w_lock"]
                           /\ UNCHANGED timer
    /\ UNCHANGED <<clock, requestsLimit, retryConfig, op, cancelled, woken,
                   retryVars, result, recorded, issued, inWindow>>
    /\ UNCHANGED <<request, sent, besideClient>>

\* The critical section is entered below the limit: Lock,
\* now := time.Now(), the pruning loop, the limit check.
WaitBelowLimit(p) ==
    /\ pc[p] = "w_lock"
    /\ mu = 0
    /\ LET valid == validRequests(requests, clock - WindowSize)
       IN  /\ ~AtLimit(valid, requestsLimit)
           /\ requests' = valid
    /\ mu' = p
    /\ pc' = [pc EXCEPT ![p] = "w_record"]
    /\ UNCHANGED <<clock, requestsLimit, retryConfig, op, cancelled, timer,
                   woken, retryVars, result, recorded, slept, issued,
                   inWindow>>
    /\ UNCHANGED <<request, sent, besideClient>>

\* append(r.requests, time.Now()), Unlock, return nil
WaitAdmit(p) ==
    /\ pc[p] = "w_record"
    /\ mu = p
    /\ requests' = Append(requests, clock)
    /\ mu' = 0
    /\ recorded' = [recorded EXCEPT ![p] = @ + 1]
    /\ inWindow' = Append(inWindow, clock)
    /\ WaitReturn(p, NilErr)
    /\ UNCHANGED <<clock, requestsLimit, retryConfig, op, cancelled, timer,
                   woken, retryVars, slept, issued>>
    /\ UNCHANGED <<request, sent, besideClient>>

\* the cases of a select that can proceed when the select is entered
ReadyCases(timerFired, ctxDone) ==
    (IF timerFired THEN {"timer"} ELSE {}) \cup
    (IF ctxDone THEN {"ctx"} ELSE {})

\* the select of Wait is entered: one of the ready cases is chosen, or the
\* goroutine parks until the first of the two channels is ready
WaitSelect(p) ==
    /\ pc[p] = "w_select"
    /\ LET ready == ReadyCases(clock >= timer[p], cancelled[p])
       IN  IF ready = {}
           THEN UNCHANGED woken
           ELSE \E w \in ready : woken' = [woken EXCEPT ![p] = w]
    /\ pc' = [pc EXCEPT ![p] = "w_parked"]
    /\ UNCHANGED <<clock, limiterVars, retryConfig, op, cancelled, timer,
                   retryVars, result, recorded, slept, issued, inWindow>>
    /\ UNCHANGED <<request, sent, besideClient>>

WaitCtxDone_Ignored(p) ==
    /\ pc' = [pc EXCEPT ![p] = "w_lock"]
    /\ UNCHANGED result

\* case <-ctx.Done(): return ctx.Err()
WaitCtxDone(p) == WaitReturn(p, CtxErr)

\* case <-time.After(waitTime): continue
WaitTimerFired(p) ==
    /\ pc' = [pc EXCEPT ![p] = "w_lock"]
    /\ UNCHANGED result

\* the select of Wait proceeds with the case it was resolved to
WaitWake(p) ==
    /\ pc[p] = "w_parked"
    /\ woken[p] # "none"
    /\ IF woken[p] = "timer" THEN WaitTimerFired(p) ELSE WaitCtxDone(p)
    /\ woken' = [woken EXCEPT ![p] = "none"]
    /\ timer' = [timer EXCEPT ![p] = 0]
    /\ UNCHANGED <<clock, limiterVars, retryConfig, op, cancelled, retryVars,
                   recorded, slept, issued, inWindow>>
    /\ UNCHANGED <<request, sent, besideClient>>

\* ------------------------------------------------------------ environment
\* time passes: a parked select whose timer is due is resolved to the timer
Tick ==
    /\ clock < MaxTime
    /\ clock' = clock + 1
    /\ woken' = [p \in Procs |->
                   IF pc[p] = "w_parked" /\ woken[p] = "none" /\ clock' >= timer[p]
                   THEN "timer" ELSE woken[p]]
    /\ inWindow' = SelectSeq(inWindow, LAMBDA t : t > clock' - WindowSize)
    /\ UNCHANGED <<limiterVars, retryConfig, pc, op, cancelled, timer,
                   retryVars, result, recorded, slept, issued>>
    /\ UNCHANGED <<request, sent, besideClient>>

\* the caller cancels the ctx of a call in progress: a parked select that is
\* not yet resolved is resolved to ctx.Done()
Cancel(p) ==
    /\ pc[p] \notin {"idle", "done", "panic"}
    /\ p \in CancellableCallers
    /\ ~cancelled[p]
    /\ cancelled' = [cancelled EXCEPT ![p] = TRUE]
    /\ woken' = [woken EXCEPT ![p] =
                   IF pc[p] \in {"w_parked", "r_parked"} /\ woken[p] = "none"
                   THEN "ctx" ELSE woken[p]]
    /\ UNCHANGED <<clock, limiterVars, retryConfig, pc, op, timer, retryVars,
                   result, recorded, slept, issued, inWindow>>
    /\ UNCHANGED <<request, sent, besideClient>>

\* ------------------------------------- RateLimitedClient.DoRequestWithRetry
LoopHead_RetryNotGated(p, att, last) ==
    IF att <= retryConfig.MaxRetries
    THEN /\ pc' = [pc EXCEPT ![p] = IF att = 0 THEN "w_lock" ELSE "r_call"]
         /\ issued' = issued + (IF att = 0 THEN 1 ELSE 0)
         /\ UNCHANGED result
    ELSE /\ pc' = [pc EXCEPT ![p] = "done"]
         /\ result' = [result EXCEPT ![p] = last]
         /\ UNCHANGED issued

\* the head of the for loop with attempt = att: the condition
\* attempt <= MaxRetries, then c.rateLimiter.Wait(ctx); after the loop,
\* return lastErr
LoopHead(p, att, last) ==
    IF att <= retryConfig.MaxRetries
    THEN /\ pc' = [pc EXCEPT ![p] = "w_lock"]
         /\ issued' = issued + 1
         /\ UNCHANGED result
    ELSE /\ pc' = [pc EXCEPT ![p] = "done"]
         /\ result' = [result EXCEPT ![p] = last]
         /\ UNCHANGED issued

\* a goroutine calls DoRequestWithRetry(ctx, ...); c tells whether ctx is
\* already done
CallDoRequestWithRetry(p, c) ==
    /\ pc[p] = "idle"
    /\ p \in RetryCallers
    /\ c => p \in CancellableCallers
    /\ op' = [op EXCEPT ![p] = "DoRequestWithRetry"]
    /\ cancelled' = [cancelled EXCEPT ![p] = c]
    /\ attempt' = [attempt EXCEPT ![p] = 0]
    /\ lastErr' = [lastErr EXCEPT ![p] = NilErr]
    /\ LoopHead(p, 0, NilErr)
    /\ UNCHANGED <<clock, limiterVars, retryConfig, timer, fired, woken,
                   backoff, calls, retryable, recorded, slept, inWindow>>
    /\ UNCHANGED <<request, sent, besideClient>>

\* the class of failures the retry policy names retryable: a failure that
\* is not an *APIError, or an *APIError whose status is in the list
RetryableClass(err) ==
    ~IsAPIError(err) \/ err.StatusCode \in retryConfig.RetryOnStatusCodes

ReturnedErr_Previous(err, prev) == IF prev = NilErr THEN err ELSE prev

\* if !c.shouldRetry(err, attempt) { return err }: err is the error of
\* this attempt, prev the lastErr of the attempts before it
ReturnedErr(err, prev) == err

\* the arguments of c.Client.doRequest(ctx, method, path, nil, body, result)
ExecutorArgs(req) == [req EXCEPT !.query = "nil"]

\* c.Client.doRequest, called with the arguments above, returns out; then
\* lastErr, shouldRetry, calculateBackoff and time.After(backoff)
DoRequest(p, out, randInt) ==
    /\ pc[p] = "r_call"
    /\ calls' = [calls EXCEPT ![p] = @ + 1]
    /\ IF out = NilErr
       THEN /\ pc' = [pc EXCEPT ![p] = "done"]
            /\ result' = [result EXCEPT ![p] = NilErr]
            /\ UNCHANGED <<lastErr, retryable, backoff>>
       ELSE /\ lastErr' = [lastErr EXCEPT ![p] = out]
            /\ retryable' = [retryable EXCEPT ![p] =
                               IF RetryableClass(out) THEN @ + 1 ELSE @]
            /\ IF ~shouldRetry(out, attempt[p], retryConfig)
               THEN /\ pc' = [pc EXCEPT ![p] = "done"]
                    /\ result' = [result EXCEPT ![p] = ReturnedErr(out, lastErr[p])]
                    /\ UNCHANGED backoff
               ELSE /\ backoff' = [backoff EXCEPT ![p] =
                          calculateBackoff(attempt[p], out, retryConfig, randInt)]
                    /\ pc' = [pc EXCEPT ![p] = "r_select"]
                    /\ UNCHANGED result
    /\ UNCHANGED <<clock, limiterVars, retryConfig, op, cancelled, timer,
                   fired, woken, attempt, recorded, slept, issued, inWindow>>
    /\ sent' = sent \cup {ExecutorArgs(request)}
    /\ UNCHANGED <<request, besideClient>>

\* the backoff select is entered: one of the ready cases is chosen, or the
\* goroutine parks until the first of the two channels is ready
BackoffSelect(p) ==
    /\ pc[p] = "r_select"
    /\ LET ready == ReadyCases(fired[p], cancelled[p])
       IN  IF ready = {}
           THEN UNCHANGED woken
           ELSE \E w \in ready : woken' = [woken EXCEPT ![p] = w]
    /\ pc' = [pc EXCEPT ![p] = "r_parked"]
    /\ UNCHANGED <<clock, limiterVars, retryConfig, op, cancelled, timer,
                   retryVars, result, recorded, slept, issued, inWindow>>
    /\ UNCHANGED <<request, sent, besideClient>>

\* the backoff timer fires, the backoff having elapsed: a parked select that
\* is not yet resolved is resolved to the timer
BackoffTimer(p) ==
    /\ pc[p] \in {"r_select", "r_parked"}
    /\ ~fired[p]
    /\ fired' = [fired EXCEPT ![p] = TRUE]
    /\ woken' = [woken EXCEPT ![p] =
                   IF pc[p] = "r_parked" /\ woken[p] = "none"
                   THEN "timer" ELSE woken[p]]
    /\ UNCHANGED <<clock, limiterVars, retryConfig, pc, op, cancelled, timer,
                   attempt, lastErr, backoff, calls, retryable, result,
                   recorded, slept, issued, inWindow>>
    /\ UNCHANGED <<request, sent, besideClient>>

BackoffCtxDone_Ignored(p) ==
    /\ attempt' = [attempt EXCEPT ![p] = @ + 1]
    /\ LoopHead(p, attempt[p] + 1, lastErr[p])

\* case <-ctx.Done(): return ctx.Err()
BackoffCtxDone(p) ==
    /\ pc' = [pc EXCEPT ![p] = "done"]
    /\ result' = [result EXCEPT ![p] = CtxErr]
    /\ UNCHANGED <<attempt, issued>>

\* case <-time.After(backoff): attempt++ and the head of the loop
BackoffTimerFired(p) ==
    /\ attempt' = [attempt EXCEPT ![p] = @ + 1]
    /\ LoopHead(p, attempt[p] + 1, lastErr[p])

\* the backoff select proceeds with the case it was resolved to
BackoffWake(p) ==
    /\ pc[p] = "r_parked"
    /\ woken[p] # "none"
    /\ IF woken[p] = "timer" THEN BackoffTimerFired(p) ELSE BackoffCtxDone(p)
    /\ woken' = [woken EXCEPT ![p] = "none"]
    /\ fired' = [fired EXCEPT ![p] = FALSE]
    /\ backoff' = [backoff EXCEPT ![p] = 0]
    /\ UNCHANGED <<clock, limiterVars, retryConfig, op, cancelled, timer,
                   lastErr, calls, retryable, recorded, slept, inWindow>>
    /\ UNCHANGED <<request, sent, besideClient>>

\* ------------------------------------------------------------------- Next
Next ==
    \/ \E p \in Procs, c \in BOOLEAN : CallWait(p, c)
    \/ \E p \in Procs : WaitAtLimit(p)
    \/ \E p \in Procs : WaitBelowLimit(p)
    \/ \E p \in Procs : WaitAdmit(p)
    \/ \E p \in Procs : WaitSelect(p)
    \/ \E p \in Procs : WaitWake(p)
    \/ \E p \in Procs, c \in BOOLEAN : CallDoRequestWithRetry(p, c)
    \/ \E p \in Procs, out \in Outcomes, r \in JitterDraws : DoRequest(p, out, r)
    \/ \E p \in Procs : BackoffSelect(p)
    \/ \E p \in Procs : BackoffTimer(p)
    \/ \E p \in Procs : BackoffWake(p)
    \/ \E p \in Procs : Cancel(p)
    \/ Tick

Spec == Init /\ [][Next]_vars

TypeOK ==
    /\ clock \in 0..MaxTime
    /\ mu \in {0} \cup Procs
    /\ \A p \in Procs : pc[p] \in {"idle", "w_lock", "w_record", "w_select",
                                   "w_parked", "r_call", "r_select",
                                   "r_parked", "done", "panic"}
    /\ \A p \in Procs : woken[p] \in {"none", "timer", "ctx"}
    /\ \A i \in 1..Len(requests) : requests[i] \in 0..MaxTime

\* ------------------------------------- the methods promoted from *Client
\* A goroutine calls a method that RateLimitedClient has from the embedded
\* *Client: Request, RequestWithQuery, or a method of the Payments, Invoices
\* or Clients service, whose client field is that *Client.  Each is one
\* c.doRequest call, which returns out.
Request(p, out) ==
    /\ pc[p] = "idle"
    /\ op' = [op EXCEPT ![p] = "Request"]
    /\ calls' = [calls EXCEPT ![p] = @ + 1]
    /\ sent' = sent \cup {request}
    /\ pc' = [pc EXCEPT ![p] = "done"]
    /\ result' = [result EXCEPT ![p] = out]
    /\ UNCHANGED <<clock, limiterVars, retryConfig, cancelled, timer, fired,
                   woken, attempt, lastErr, backoff, retryable, recorded,
                   slept, issued, inWindow, request, besideClient>>

\* the calls an application can make on a RateLimitedClient
ClientNext ==
    \/ Next
    \/ \E p \in Procs, out \in Outcomes : Request(p, out)

ClientSpec == Init /\ [][ClientNext]_vars

\* ------------------------------------------------ calculateBackoff alone
\* the retry configurations calculateBackoff is called under: the default
\* one and ones that differ from it in the fields calculateBackoff reads
BackoffConfigs ==
    {[DefaultRetryConfig EXCEPT !.InitialBackoff = i,
                                !.MaxBackoff = m,
                                !.BackoffMultiplier = k,
                                !.Jitter = j] :
        i \in {500, 1000}, m \in {30000, 120000}, k \in {2, 3},
        j \in BOOLEAN}

\* the errors calculateBackoff is called with
BackoffErrors == Outcomes \ {NilErr}

\* a client whose retry configuration is set, and the arguments of one
\* calculateBackoff(attempt, err) call with the draw of rand.Int
BackoffInit ==
    /\ requestsLimit = DefaultRequestsPerSecond
    /\ retryConfig \in BackoffConfigs
    /\ NoCallYet
    /\ backoffArgs \in [attempt : 0..MaxAttempt, err : BackoffErrors,
                         randInt : JitterDraws]
    /\ backoffRet = NoArgs
    /\ ParseIdle
    /\ HookIdle

\* c.calculateBackoff(attempt, err) returns
CalculateBackoff ==
    /\ backoffRet = NoArgs
    /\ backoffRet' = [value |-> calculateBackoff(backoffArgs.attempt,
                                    backoffArgs.err, retryConfig,
                                    backoffArgs.randInt)]
    /\ UNCHANGED <<clientVars, backoffArgs, parseVars, hookVars>>

BackoffNext == CalculateBackoff

BackoffSpec == BackoffInit /\ [][BackoffNext]_vars

\* ------------------------------------------- WebhookHandler.HandleRequest
On_KeepsFirst(eventType, handler) ==
    /\ \A h \in Hooks : hpc[h] \in {"idle", "done"}
    /\ handlers' = [k \in DOMAIN handlers \cup {eventType} |->
                       IF k \in DOMAIN handlers THEN handlers[k] ELSE handler]
    /\ lastOn' = [eventType |-> eventType, handler |-> handler]
    /\ UNCHANGED <<secret, inbound, hpc, hreq, hbody, hevent, hhandler,
                   written, invoked, trail>>
    /\ UNCHANGED <<clientVars, backoffVars, parseVars>>

\* h.On(eventType, handler), and the OnXxx methods that call it.  The map
\* is written only while no HandleRequest call is in progress: a write
\* beside a read of it is a data race.
On(eventType, handler) ==
    /\ \A h \in Hooks : hpc[h] \in {"idle", "done"}
    /\ handlers' = [k \in DOMAIN handlers \cup {eventType} |->
                       IF k = eventType THEN handler ELSE handlers[k]]
    /\ lastOn' = [eventType |-> eventType, handler |-> handler]
    /\ UNCHANGED <<secret, inbound, hpc, hreq, hbody, hevent, hhandler,
                   written, invoked, trail>>
    /\ UNCHANGED <<clientVars, backoffVars, parseVars>>

\* the host server calls h.HandleRequest(w, r) on goroutine h
Arrive(h, r) ==
    /\ hpc[h] = "idle"
    /\ r \in inbound[h]
    /\ hreq' = [hreq EXCEPT ![h] = r]
    /\ hpc' = [hpc EXCEPT ![h] = "method"]
    /\ UNCHANGED <<secret, handlers, lastOn, inbound, hbody, hevent, hhandler,
                   written, invoked, trail>>
    /\ UNCHANGED <<clientVars, backoffVars, parseVars>>

\* http.Error(w, ..., code) or w.WriteHeader(code), and return
Respond(h, code) ==
    /\ written' = [written EXCEPT ![h] = Append(@, code)]
    /\ hpc' = [hpc EXCEPT ![h] = "done"]

\* the stage of HandleRequest that has run is put on the trail
Stage(h, name) == trail' = [trail EXCEPT ![h] = Append(@, name)]

IsPost_Any(method) == TRUE

\* r.Method == http.MethodPost
IsPost(method) == method = "POST"

\* if r.Method != http.MethodPost: 405
RejectMethod(h) ==
    /\ hpc[h] = "method"
    /\ Stage(h, "Reject-Method")
    /\ IF ~IsPost(hreq[h].method)
       THEN Respond(h, StatusMethodNotAllowed)
       ELSE /\ hpc' = [hpc EXCEPT ![h] = "read"]
            /\ UNCHANGED written
    /\ UNCHANGED <<secret, handlers, lastOn, inbound, hreq, hbody, hevent, hhandler,
                   invoked>>
    /\ UNCHANGED <<clientVars, backoffVars, parseVars>>

\* body, err := io.ReadAll(r.Body); on an error 400
ReadBody(h) ==
    /\ hpc[h] = "read"
    /\ Stage(h, "Read-Body")
    /\ IF ~hreq[h].readable
       THEN /\ Respond(h, StatusBadRequest)
            /\ UNCHANGED hbody
       ELSE /\ hbody' = [hbody EXCEPT ![h] = hreq[h].body]
            /\ hpc' = [hpc EXCEPT ![h] = "verify"]
            /\ UNCHANGED written
    /\ UNCHANGED <<secret, handlers, lastOn, inbound, hreq, hevent, hhandler,
                   invoked>>
    /\ UNCHANGED <<clientVars, backoffVars, parseVars>>

Verify_Skipped(h) ==
    /\ hpc[h] = "verify"
    /\ Stage(h, "Verify")
    /\ hpc' = [hpc EXCEPT ![h] = "decode"]
    /\ UNCHANGED written
    /\ UNCHANGED <<secret, handlers, lastOn, inbound, hreq, hbody, hevent, hhandler,
                   invoked>>
    /\ UNCHANGED <<clientVars, backoffVars, parseVars>>

\* if h.secret != "": the signature header, verifySignature; on a failure
\* 401
Verify(h) ==
    /\ hpc[h] = "verify"
    /\ Stage(h, "Verify")
    /\ IF /\ secret # ""
          /\ ~verifySignature(hbody[h], PresentedSignature(hreq[h]), secret)
       THEN Respond(h, StatusUnauthorized)
       ELSE /\ hpc' = [hpc EXCEPT ![h] = "decode"]
            /\ UNCHANGED written
    /\ UNCHANGED <<secret, handlers, lastOn, inbound, hreq, hbody, hevent, hhandler,
                   invoked>>
    /\ UNCHANGED <<clientVars, backoffVars, parseVars>>

DecodeEnvelope_EventInHandler(h) ==
    /\ hpc[h] = "decode"
    /\ Stage(h, "Decode-Envelope")
    /\ LET u == Unmarshal(hbody[h])
       IN  IF ~u.ok
           THEN /\ Respond(h, StatusBadRequest)
                /\ UNCHANGED hevent
           ELSE /\ hevent' = [g \in Hooks |-> u.event]
                /\ hpc' = [hpc EXCEPT ![h] = "dispatch"]
                /\ UNCHANGED written
    /\ UNCHANGED <<secret, handlers, lastOn, inbound, hreq, hbody, hhandler,
                   invoked>>
    /\ UNCHANGED <<clientVars, backoffVars, parseVars>>

\* json.Unmarshal(body, &event); on an error 400
DecodeEnvelope(h) ==
    /\ hpc[h] = "decode"
    /\ Stage(h, "Decode-Envelope")
    /\ LET u == Unmarshal(hbody[h])
       IN  IF ~u.ok
           THEN /\ Respond(h, StatusBadRequest)
                /\ UNCHANGED hevent
           ELSE /\ hevent' = [hevent EXCEPT ![h] = u.event]
                /\ hpc' = [hpc EXCEPT ![h] = "dispatch"]
                /\ UNCHANGED written
    /\ UNCHANGED <<secret, handlers, lastOn, inbound, hreq, hbody, hhandler,
                   invoked>>
    /\ UNCHANGED <<clientVars, backoffVars, parseVars>>

Dispatch_RejectsUnknown(h) ==
    /\ hpc[h] = "dispatch"
    /\ Stage(h, "Dispatch")
    /\ IF ~Registered(handlers, hevent[h].EventType)
       THEN /\ Respond(h, StatusBadRequest)
            /\ UNCHANGED <<hhandler, invoked>>
       ELSE /\ hhandler' = [hhandler EXCEPT ![h] =
                                handlers[hevent[h].EventType]]
            /\ invoked' = [invoked EXCEPT ![h] =
                              Append(@, [handler |-> hhandler'[h],
                                         event |-> hevent[h]])]
            /\ hpc' = [hpc EXCEPT ![h] = "handling"]
            /\ UNCHANGED written
    /\ UNCHANGED <<secret, handlers, lastOn, inbound, hreq, hbody, hevent>>
    /\ UNCHANGED <<clientVars, backoffVars, parseVars>>

\* handler, ok := h.handlers[event.EventType]; if !ok 200; else the call
\* handler(&event) is made
Dispatch(h) ==
    /\ hpc[h] = "dispatch"
    /\ Stage(h, "Dispatch")
    /\ IF ~Registered(handlers, hevent[h].EventType)
       THEN /\ Respond(h, StatusOK)
            /\ UNCHANGED <<hhandler, invoked>>
       ELSE /\ hhandler' = [hhandler EXCEPT ![h] =
                                handlers[hevent[h].EventType]]
            /\ invoked' = [invoked EXCEPT ![h] =
                              Append(@, [handler |-> hhandler'[h],
                                         event |-> hevent[h]])]
            /\ hpc' = [hpc EXCEPT ![h] = "handling"]
            /\ UNCHANGED written
    /\ UNCHANGED <<secret, handlers, lastOn, inbound, hreq, hbody, hevent>>
    /\ UNCHANGED <<clientVars, backoffVars, parseVars>>

HandlerStatus_AlwaysOK(failed) == StatusOK

\* if err := handler(&event); err != nil: 500, else 200
HandlerStatus(failed) ==
    IF failed THEN StatusInternalServerError ELSE StatusOK

\* the handler returns, with an error if failed, and the response is
\* written
HandlerReturns(h, failed) ==
    /\ hpc[h] = "handling"
    /\ Stage(h, IF failed THEN "Handler-Failed" ELSE "Handler-Returned")
    /\ Respond(h, HandlerStatus(failed))
    /\ UNCHANGED <<secret, handlers, lastOn, inbound, hreq, hbody, hevent, hhandler,
                   invoked>>
    /\ UNCHANGED <<clientVars, backoffVars, parseVars>>

\* NewWebhookHandler(secret); the requests reach one serving goroutine
HookInit ==
    /\ secret \in Secrets
    /\ handlers = << >>
    /\ lastOn = NoArgs
    /\ inbound = [h \in Hooks |-> IF h = 1 THEN Deliveries ELSE {}]
    /\ NoRequestYet
    /\ ClientAtRest
    /\ BackoffIdle
    /\ ParseIdle

HookNext ==
    \/ \E eventType \in EventTypes, handler \in HandlerFuncs :
            On(eventType, handler)
    \/ \E h \in Hooks, r \in Deliveries : Arrive(h, r)
    \/ \E h \in Hooks : RejectMethod(h)
    \/ \E h \in Hooks : ReadBody(h)
    \/ \E h \in Hooks : Verify(h)
    \/ \E h \in Hooks : DecodeEnvelope(h)
    \/ \E h \in Hooks : Dispatch(h)
    \/ \E h \in Hooks, failed \in BOOLEAN : HandlerReturns(h, failed)

HookSpec == HookInit /\ [][HookNext]_vars

\* ------------------------------------------- registrations between requests
\* the keys the application registers handlers under: the event types of
\* the OnXxx methods and, through On, one that differs from one of them in
\* case alone
RegistryKeys == EventTypes \cup {"Invoice.Created"}

\* a body whose event_type is that key
MixedCaseBody ==
    [text |-> "Invoice", wellFormed |-> TRUE,
     event_type |-> "Invoice.Created", data |-> "inv123"]

\* unsigned POSTs, one for each key
RegistryDeliveries ==
    {[method |-> "POST", readable |-> TRUE, body |-> b,
      primary |-> << >>, alternate |-> << >>] :
        b \in {InvoiceBody, PaymentBody, MixedCaseBody}}

\* NewWebhookHandler(""); the requests reach one serving goroutine
RegistryInit ==
    /\ secret = ""
    /\ handlers = << >>
    /\ lastOn = NoArgs
    /\ inbound = [h \in Hooks |-> IF h = 1 THEN RegistryDeliveries ELSE {}]
    /\ NoRequestYet
    /\ ClientAtRest
    /\ BackoffIdle
    /\ ParseIdle

RegistryNext ==
    \/ \E eventType \in RegistryKeys, handler \in HandlerFuncs :
            On(eventType, handler)
    \/ \E h \in Hooks, r \in RegistryDeliveries : Arrive(h, r)
    \/ \E h \in Hooks : RejectMethod(h)
    \/ \E h \in Hooks : ReadBody(h)
    \/ \E h \in Hooks : Verify(h)
    \/ \E h \in Hooks : DecodeEnvelope(h)
    \/ \E h \in Hooks : Dispatch(h)
    \/ \E h \in Hooks, failed \in BOOLEAN : HandlerReturns(h, failed)

RegistrySpec == RegistryInit /\ [][RegistryNext]_vars

\* ------------------------------------------------------ parseAPIError alone
\* the number of parseAPIError calls made on the same arguments
MaxParseCalls == 2

\* a nil map[string][]string; a map is a function from its keys
NilMap == << >>

\* Response bodies.  text stands for the bytes, "" for a nil or empty
\* body; decodes tells whether json.Unmarshal into errResp succeeds on
\* them, message and errors are the members it then finds.
NoBody ==
    [text |-> "", decodes |-> FALSE, message |-> "", errors |-> NilMap]
InvalidJSONBody ==
    [text |-> "invalid json", decodes |-> FALSE, message |-> "",
     errors |-> NilMap]
ValidationBody ==
    [text |-> "{message:Validation failed,errors:{email:[Email is required]}}",
     decodes |-> TRUE, message |-> "Validation failed",
     errors |-> [email |-> <<"Email is required">>]]
MessageBody ==
    [text |-> "{message:Too many invoices}", decodes |-> TRUE,
     message |-> "Too many invoices", errors |-> NilMap]
ErrorsOnlyBody ==
    [text |-> "{errors:{email:[Email is required]}}", decodes |-> TRUE,
     message |-> "", errors |-> [email |-> <<"Email is required">>]]
EmptyObjectBody ==
    [text |-> "{}", decodes |-> TRUE, message |-> "", errors |-> NilMap]
MistypedBody ==
    [text |-> "{message:Bad input,errors:oops}", decodes |-> FALSE,
     message |-> "Bad input", errors |-> NilMap]

ErrorBodies ==
    {NoBody, InvalidJSONBody, ValidationBody, MessageBody, ErrorsOnlyBody,
     EmptyObjectBody, MistypedBody}

\* the status codes parseAPIError is called with
ErrorStatuses == {400, 401, 403, 404, 418, 422, 429, 500, 503}

\* json.Unmarshal(body, &errResp): errResp is used only if err == nil
UnmarshalErrResp(body) ==
    IF body.decodes
    THEN [ok |-> TRUE, Message |-> body.message, Errors |-> body.errors]
    ELSE [ok |-> FALSE, Message |-> "", Errors |-> NilMap]

DefaultMessage_OnlyInternalError(statusCode) ==
    CASE statusCode = 400 -> "bad request"
      [] statusCode = 401 -> "unauthorized - check your API token"
      [] statusCode = 403 ->
            "forbidden - you don't have permission to access this resource"
      [] statusCode = 404 -> "resource not found"
      [] statusCode = 422 -> "validation error"
      [] statusCode = 429 -> "rate limit exceeded"
      [] OTHER -> IF statusCode = 500 THEN "server error" ELSE ""

\* the switch of parseAPIError on statusCode
DefaultMessage(statusCode) ==
    CASE statusCode = 400 -> "bad request"
      [] statusCode = 401 -> "unauthorized - check your API token"
      [] statusCode = 403 ->
            "forbidden - you don't have permission to access this resource"
      [] statusCode = 404 -> "resource not found"
      [] statusCode = 422 -> "validation error"
      [] statusCode = 429 -> "rate limit exceeded"
      [] OTHER -> IF statusCode >= 500 THEN "server error" ELSE ""

\* parseAPIError(statusCode, body): the *APIError it returns
parseAPIError(statusCode, body) ==
    LET errResp == UnmarshalErrResp(body)
        parsed == body.text # "" /\ errResp.ok
        message == IF parsed THEN errResp.Message ELSE ""
    IN  [StatusCode |-> statusCode,
         Message |-> IF message = "" THEN DefaultMessage(statusCode)
                     ELSE message,
         Errors |-> IF parsed THEN errResp.Errors ELSE NilMap]

\* the arguments of the parseAPIError calls
ParseInit ==
    /\ parseArgs \in [statusCode : ErrorStatuses, body : ErrorBodies]
    /\ parseRet = << >>
    /\ ClientAtRest
    /\ BackoffIdle
    /\ HookIdle

\* parseAPIError(statusCode, body) returns
ParseAPIError ==
    /\ Len(parseRet) < MaxParseCalls
    /\ parseRet' = Append(parseRet,
                          parseAPIError(parseArgs.statusCode, parseArgs.body))
    /\ UNCHANGED <<clientVars, backoffVars, parseArgs, hookVars>>

ParseNext == ParseAPIError

ParseSpec == ParseInit /\ [][ParseNext]_vars

\* ------------------------------------------ callers that keep calling Wait
\* A goroutine whose limiter.Wait call has returned goes on to make another
\* one, as a worker does in a loop.  The histories of the finished call are
\* dropped with it.
CallAgain(p) ==
    /\ pc[p] = "done"
    /\ op[p] = "Wait"
    /\ pc' = [pc EXCEPT ![p] = "idle"]
    /\ op' = [op EXCEPT ![p] = "none"]
    /\ cancelled' = [cancelled EXCEPT ![p] = FALSE]
    /\ result' = [result EXCEPT ![p] = Pending]
    /\ recorded' = [recorded EXCEPT ![p] = 0]
    /\ slept' = [slept EXCEPT ![p] = FALSE]
    /\ issued' = issued - 1
    /\ UNCHANGED <<clock, limiterVars, retryConfig, timer, woken, retryVars,
                   inWindow>>
    /\ UNCHANGED <<request, sent, besideClient>>

\* a time that lies a whole window or more before MaxTime
LongAgo == MaxTime - WindowSize

\* Time passes beyond MaxTime.  The clock is read relative to an origin
\* that moves with it: time.Now() stays MaxTime and every other time is one
\* tick less.  A timestamp that has left the window is kept at LongAgo and
\* a timer that is due at 1, so that each stays what it is; as in Tick, a
\* parked select whose timer is due is resolved to the timer.
TickOn ==
    /\ clock = MaxTime
    /\ LET earlier(t) == IF t - 1 > LongAgo THEN t - 1 ELSE LongAgo
           due(p) == IF timer[p] = 0 THEN 0
                     ELSE IF timer[p] - 1 > 1 THEN timer[p] - 1 ELSE 1
       IN  /\ requests' = [i \in 1..Len(requests) |-> earlier(requests[i])]
           /\ timer' = [p \in Procs |-> due(p)]
           /\ woken' = [p \in Procs |->
                          IF /\ pc[p] = "w_parked"
                             /\ woken[p] = "none"
                             /\ clock >= due(p)
                          THEN "timer" ELSE woken[p]]
           /\ inWindow' = SelectSeq([i \in 1..Len(inWindow) |-> inWindow[i] - 1],
                                    LAMBDA t : t > clock - WindowSize)
    /\ UNCHANGED <<clock, mu, requestsLimit, retryConfig, pc, op, cancelled,
                   retryVars, result, recorded, slept, issued>>
    /\ UNCHANGED <<request, sent, besideClient>>

\* a limiter of capacity 1 or more; every goroutine calls limiter.Wait
FairInit ==
    /\ requestsLimit \in 1..MaxCapacity
    /\ retryConfig = DefaultRetryConfig
    /\ NoCallYet
    /\ BackoffIdle
    /\ ParseIdle
    /\ HookIdle

FairNext ==
    \/ \E p \in Procs, c \in BOOLEAN : CallWait(p, c)
    \/ \E p \in Procs : WaitAtLimit(p)
    \/ \E p \in Procs : WaitBelowLimit(p)
    \/ \E p \in Procs : WaitAdmit(p)
    \/ \E p \in Procs : WaitSelect(p)
    \/ \E p \in Procs : WaitWake(p)
    \/ \E p \in Procs : Cancel(p)
    \/ \E p \in Procs : CallAgain(p)
    \/ Tick
    \/ TickOn

\* The scheduler runs every goroutine that can take a step, time advances,
\* sync.Mutex hands the mutex to every goroutine that keeps asking for it,
\* and a select that is entered again and again with ctx.Done() ready does
\* choose that case, its choice among the ready cases being random.
\* Whether a call is made or a ctx is cancelled is the application's.
Fairness ==
    /\ WF_vars(Tick)
    /\ WF_vars(TickOn)
    /\ \A p \in Procs :
          /\ SF_vars(WaitAtLimit(p) \/ WaitBelowLimit(p))
          /\ WF_vars(WaitAdmit(p))
          /\ WF_vars(WaitSelect(p))
          /\ SF_vars(WaitSelect(p) /\ woken'[p] = "ctx")
          /\ WF_vars(WaitWake(p))

FairSpec == FairInit /\ [][FairNext]_vars /\ Fairness

\* ------------------------------------------------------ concurrent serving
\* the requests that reach a handler served by several goroutines: any
\* method and body, unsigned or signed with the key "whsec" in
\* X-Ninja-Signature
ServeDeliveries ==
    {r \in Deliveries :
        /\ r.readable
        /\ r.alternate = << >>
        /\ r.primary \in {<< >>, <<HexHMAC("whsec", r.body)>>}}

\* NewWebhookHandler(secret); the host server calls HandleRequest on every
\* serving goroutine
ServeInit ==
    /\ secret \in Secrets
    /\ handlers = << >>
    /\ lastOn = NoArgs
    /\ inbound = [h \in Hooks |-> ServeDeliveries]
    /\ NoRequestYet
    /\ ClientAtRest
    /\ BackoffIdle
    /\ ParseIdle

ServeNext ==
    \/ \E eventType \in EventTypes, handler \in HandlerFuncs :
            On(eventType, handler)
    \/ \E h \in Hooks, r \in ServeDeliveries : Arrive(h, r)
    \/ \E h \in Hooks : RejectMethod(h)
    \/ \E h \in Hooks : ReadBody(h)
    \/ \E h \in Hooks : Verify(h)
    \/ \E h \in Hooks : DecodeEnvelope(h)
    \/ \E h \in Hooks : Dispatch(h)
    \/ \E h \in Hooks, failed \in BOOLEAN : HandlerReturns(h, failed)

ServeSpec == ServeInit /\ [][ServeNext]_vars

\* =================================================================== claims
\* the goroutine is inside a RateLimiter.Wait call
InWait(p) == pc[p] \in {"w_lock", "w_record", "w_select", "w_parked"}

\* this step is the return of the Wait call of p
WaitReturns(p) == InWait(p) /\ pc'[p] \in {"r_call", "done"}

\* this step is the return of the Wait call of p with the nil error
WaitReturnsNil(p) ==
    /\ WaitReturns(p)
    /\ IF op[p] = "Wait" THEN result'[p] = NilErr ELSE pc'[p] = "r_call"

\* this step is the return of the Wait call of p with ctx.Err()
WaitReturnsCtxErr(p) ==
    /\ WaitReturns(p)
    /\ pc'[p] = "done"
    /\ result'[p] = CtxErr

\* C1: with a capacity of at least 1, the admissions recorded within the
\* trailing window never number more than the capacity, whatever the
\* interleaving of the callers.
C1_CapacityRespected ==
    requestsLimit >= 1 => Len(inWindow) <= requestsLimit

\* a caller that found the limiter full has been admitted later, and the
\* window is full again
C1_Witness ==
    /\ requestsLimit >= 1
    /\ Len(inWindow) = requestsLimit
    /\ \E p \in Procs : slept[p] /\ recorded[p] >= 1

\* C2: as long as no more Wait calls than the capacity have been begun on
\* the fresh limiter, no caller with a live ctx has taken the limit branch,
\* none has ended abnormally, and every returned Wait returned nil.
C2_NoWaitWithinCapacity ==
    (requestsLimit >= 1 /\ issued <= requestsLimit) =>
        \A p \in Procs :
            ~cancelled[p] =>
                /\ ~slept[p]
                /\ pc[p] # "panic"
                /\ (op[p] = "Wait" /\ pc[p] = "done") => result[p] = NilErr

\* as many Wait calls as the capacity, two at least, were begun and all of
\* them are admitted within one window
C2_Witness ==
    /\ requestsLimit >= 2
    /\ issued = requestsLimit
    /\ Len(inWindow) = requestsLimit
    /\ \A p \in Procs : ~cancelled[p] /\ pc[p] \in {"done", "r_call"}

\* C3: a Wait call whose ctx is not cancelled returns only at a moment when
\* fewer admissions than the capacity lie within the trailing window, and
\* it returns nil.
C3_Step ==
    \A p \in Procs :
        (requestsLimit >= 1 /\ WaitReturns(p) /\ ~cancelled[p]) =>
            /\ Len(inWindow) < requestsLimit
            /\ WaitReturnsNil(p)

C3_BlocksUntilWindowDrains == [][C3_Step]_vars

\* a caller with a live ctx that found the limiter full has returned nil
C3_Witness ==
    \E p \in Procs :
        /\ op[p] = "Wait"
        /\ slept[p]
        /\ ~cancelled[p]
        /\ pc[p] = "done"
        /\ result[p] = NilErr

\* C4: a caller parked in the select of Wait whose ctx is cancelled before
\* the timer is due leaves the select by returning ctx.Err(), and it
\* appends nothing; a Wait call that returned ctx.Err() has recorded no
\* timestamp.
C4_Step ==
    \A p \in Procs :
        /\ (pc[p] = "w_parked" /\ cancelled[p] /\ clock < timer[p]
                /\ pc'[p] # "w_parked") =>
              /\ WaitReturnsCtxErr(p)
              /\ requests' = requests
              /\ recorded'[p] = recorded[p]
        /\ (op'[p] = "Wait" /\ pc'[p] = "done" /\ result'[p] = CtxErr) =>
              recorded'[p] = 0

C4_CancelledWhileBlocked == [][C4_Step]_vars

\* a Wait call has returned ctx.Err() while the window is still full
C4_Witness ==
    \E p \in Procs :
        /\ op[p] = "Wait"
        /\ pc[p] = "done"
        /\ result[p] = CtxErr
        /\ requestsLimit >= 1
        /\ Len(inWindow) >= requestsLimit

\* C5: a Wait call whose ctx is already cancelled when it returns, returns
\* ctx.Err() and has appended nothing, whatever the occupancy.
C5_Step ==
    \A p \in Procs :
        (requestsLimit >= 1 /\ cancelled[p] /\ InWait(p)) =>
            /\ recorded'[p] = recorded[p]
            /\ WaitReturns(p) => WaitReturnsCtxErr(p)

C5_CancelledNeverAdmitted == [][C5_Step]_vars

\* the goroutine runs DoRequestWithRetry
InRetry(p) == op[p] = "DoRequestWithRetry"

\* the retries a call has made: its doRequest calls after the first
Retries(p) == IF calls[p] = 0 THEN 0 ELSE calls[p] - 1

Min(a, b) == IF a < b THEN a ELSE b

\* this step is a doRequest call of p that returned an error
DoRequestFails(p) ==
    /\ pc[p] = "r_call"
    /\ pc'[p] # "r_call"
    /\ ~(pc'[p] = "done" /\ result'[p] = NilErr)

\* C6, as stated: with MaxRetries >= 0 a call makes at most MaxRetries + 1
\* doRequest calls, a returned call has made exactly
\* min(MaxRetries, retryable failures) retries, and with MaxRetries = 0 a
\* returned call has made exactly one doRequest call.
C6_ExactRetryCount ==
    \A p \in Procs :
        (InRetry(p) /\ retryConfig.MaxRetries >= 0) =>
            /\ calls[p] <= retryConfig.MaxRetries + 1
            /\ pc[p] = "done" =>
                  /\ Retries(p) = Min(retryConfig.MaxRetries, retryable[p])
                  /\ retryConfig.MaxRetries = 0 => calls[p] = 1

\* C6, amended: the exact count holds of a call that returns nil or the
\* error of a doRequest call; a call that returns ctx.Err() has made at most
\* that many retries, and with MaxRetries = 0 at most one doRequest call.
C6_RetryCountUnlessCancelled ==
    \A p \in Procs :
        (InRetry(p) /\ retryConfig.MaxRetries >= 0) =>
            /\ calls[p] <= retryConfig.MaxRetries + 1
            /\ (pc[p] = "done" /\ result[p] # CtxErr) =>
                  /\ Retries(p) = Min(retryConfig.MaxRetries, retryable[p])
                  /\ retryConfig.MaxRetries = 0 => calls[p] = 1
            /\ (pc[p] = "done" /\ result[p] = CtxErr) =>
                  Retries(p) <= Min(retryConfig.MaxRetries, retryable[p])

\* a call has returned the error of its second doRequest call, after one
\* retry
C6_Witness ==
    \E p \in Procs :
        /\ InRetry(p)
        /\ pc[p] = "done"
        /\ result[p] \notin {CtxErr, NilErr}
        /\ calls[p] = 2
        /\ retryable[p] = 2

\* C7: a doRequest call that fails with an *APIError whose status is not in
\* RetryOnStatusCodes ends DoRequestWithRetry in that very step with that
\* error: no select is entered and no Wait is begun; a returned call makes
\* no further doRequest call and records no further admission.
C7_Step ==
    \A p \in Procs :
        /\ (DoRequestFails(p) /\ IsAPIError(lastErr'[p])
                /\ lastErr'[p].StatusCode \notin retryConfig.RetryOnStatusCodes) =>
              /\ pc'[p] = "done"
              /\ result'[p] = lastErr'[p]
              /\ issued' = issued
        /\ pc[p] = "done" =>
              /\ pc'[p] = "done"
              /\ calls'[p] = calls[p]
              /\ recorded'[p] = recorded[p]

C7_NonRetryableReturnsAtOnce == [][C7_Step]_vars

\* a call has returned an *APIError outside the list while retries were
\* left
C7_Witness ==
    \E p \in Procs :
        /\ InRetry(p)
        /\ pc[p] = "done"
        /\ IsAPIError(result[p])
        /\ result[p].StatusCode \notin retryConfig.RetryOnStatusCodes
        /\ attempt[p] < retryConfig.MaxRetries

\* C8, as stated: after a failed doRequest call the loop goes on to the
\* backoff exactly if the error is not an *APIError, or it is one whose
\* status is in RetryOnStatusCodes and attempt < MaxRetries.
C8_StatedStep ==
    \A p \in Procs :
        DoRequestFails(p) =>
            (pc'[p] = "r_select" <=>
                \/ ~IsAPIError(lastErr'[p])
                \/ /\ lastErr'[p].StatusCode \in retryConfig.RetryOnStatusCodes
                   /\ attempt[p] < retryConfig.MaxRetries)

C8_RetryDecisionAsStated == [][C8_StatedStep]_vars

\* C8, amended: the loop goes on to the backoff exactly if
\* attempt < MaxRetries and the error is not an *APIError or is one whose
\* status is in RetryOnStatusCodes.
C8_AmendedStep ==
    \A p \in Procs :
        DoRequestFails(p) =>
            (pc'[p] = "r_select" <=>
                /\ attempt[p] < retryConfig.MaxRetries
                /\ \/ ~IsAPIError(lastErr'[p])
                   \/ lastErr'[p].StatusCode \in retryConfig.RetryOnStatusCodes)

C8_RetryDecision == [][C8_AmendedStep]_vars

\* a transport failure at attempt = MaxRetries was not retried
C8_Witness ==
    \E p \in Procs :
        /\ InRetry(p)
        /\ pc[p] = "done"
        /\ result[p] = NetErr
        /\ attempt[p] = retryConfig.MaxRetries

\* C9: a call that has made all its MaxRetries + 1 doRequest calls, each
\* failing with an error of a retryable class, returns the error of the
\* last of them.
C9_LastErrorReturned ==
    \A p \in Procs :
        (InRetry(p) /\ pc[p] = "done" /\ retryConfig.MaxRetries >= 0
            /\ calls[p] = retryConfig.MaxRetries + 1
            /\ retryable[p] = calls[p]) =>
                result[p] = lastErr[p]

\* a call has used up a retry and returned the error of its last attempt
C9_Witness ==
    \E p \in Procs :
        /\ InRetry(p)
        /\ pc[p] = "done"
        /\ retryConfig.MaxRetries >= 1
        /\ calls[p] = retryConfig.MaxRetries + 1
        /\ retryable[p] = calls[p]
        /\ result[p] = APIError(500)

\* C10: a DoRequestWithRetry call parked in the select of the limiter or of
\* the backoff, whose ctx is cancelled before the timer of that select has
\* fired, leaves the select by returning ctx.Err(), without a further
\* doRequest call.
C10_Step ==
    \A p \in Procs :
        (/\ InRetry(p)
         /\ cancelled[p]
         /\ \/ pc[p] = "w_parked" /\ clock < timer[p]
            \/ pc[p] = "r_parked" /\ woken[p] # "timer"
         /\ pc'[p] # pc[p]) =>
            /\ pc'[p] = "done"
            /\ result'[p] = CtxErr
            /\ calls' = calls

C10_CancellationAbortsWaits == [][C10_Step]_vars

\* a call cancelled during a backoff has returned ctx.Err() with a retry
\* left
C10_Witness ==
    \E p \in Procs :
        /\ InRetry(p)
        /\ pc[p] = "done"
        /\ result[p] = CtxErr
        /\ calls[p] >= 1
        /\ calls[p] <= retryConfig.MaxRetries

\* the calculateBackoff call has returned
BackoffReturned == backoffRet # NoArgs

\* the error of the calculateBackoff call is an *APIError with status 429
BackoffOf429 ==
    /\ IsAPIError(backoffArgs.err)
    /\ backoffArgs.err.StatusCode = 429

\* C11: with Jitter false and an error that is not a 429, calculateBackoff
\* returns InitialBackoff * BackoffMultiplier^attempt where that is at most
\* MaxBackoff and MaxBackoff where it is more, for every attempt >= 0; the
\* result never exceeds MaxBackoff.
C11_BackoffIsClampedExponential ==
    (BackoffReturned /\ ~retryConfig.Jitter /\ ~BackoffOf429) =>
        LET exact == retryConfig.InitialBackoff *
                        Pow(retryConfig.BackoffMultiplier, backoffArgs.attempt)
        IN  /\ exact <= retryConfig.MaxBackoff => backoffRet.value = exact
            /\ exact > retryConfig.MaxBackoff =>
                    backoffRet.value = retryConfig.MaxBackoff
            /\ backoffRet.value <= retryConfig.MaxBackoff

\* with the defaults and no jitter, a server error at attempt 5 backs off
\* for MaxBackoff, 30 s, and not for 32 s
C11_Witness ==
    /\ BackoffReturned
    /\ retryConfig = [DefaultRetryConfig EXCEPT !.Jitter = FALSE]
    /\ backoffArgs.err = APIError(500)
    /\ backoffArgs.attempt = 5
    /\ backoffRet.value = 30000

C13_EveryCallGatedAndRetried ==
    \A p \in Procs :
        /\ calls[p] <= recorded[p]
        /\ (/\ pc[p] = "done"
            /\ op[p] # "Wait"
            /\ result[p] \notin {NilErr, CtxErr}
            /\ RetryableClass(result[p])
            /\ retryConfig.MaxRetries >= 0) =>
                calls[p] = retryConfig.MaxRetries + 1

\* C14: every doRequest call of DoRequestWithRetry gets the method, path,
\* query and body the caller passed, on every attempt.
C14_ArgumentsReachExecutor ==
    \A p \in Procs :
        (InRetry(p) /\ calls[p] >= 1) => sent = {request}

\* ------------------------------------------------------- webhook claims
\* the HandleRequest call of h has begun
Arrived(h) == hpc[h] # "idle"

\* the stage has been run by the HandleRequest call of h
Ran(h, name) == \E i \in 1..Len(trail[h]) : trail[h][i] = name

\* the two header values that carry the digest of body b under key k
CorrectSignatures(k, b) ==
    {<<HexHMAC(k, b)>>, <<Sha256Prefix, HexHMAC(k, b)>>}

\* the request of h: a POST whose body can be read
ReadablePost(h) ==
    /\ Arrived(h)
    /\ hreq[h].method = "POST"
    /\ hreq[h].readable

\* C15: a request whose method is not POST is answered 405; its body is
\* not read, no signature is verified and no handler is invoked.
C15_NonPostRejected ==
    \A h \in Hooks :
        (Arrived(h) /\ hreq[h].method # "POST") =>
            /\ hpc[h] \in {"method", "done"}
            /\ hpc[h] = "done" => written[h] = <<405>>
            /\ hbody[h] = Unset
            /\ invoked[h] = << >>
            /\ ~Ran(h, "Read-Body")
            /\ ~Ran(h, "Verify")

\* a GET that carries a correct signature and an event with a registered
\* handler has been answered 405
C15_Witness ==
    \E h \in Hooks :
        /\ hpc[h] = "done"
        /\ hreq[h].method = "GET"
        /\ hreq[h].readable
        /\ secret # ""
        /\ hreq[h].primary = <<HexHMAC(secret, hreq[h].body)>>
        /\ Registered(handlers, hreq[h].body.event_type)
        /\ written[h] = <<405>>

\* the presented signature of the request of h, stripped of one "sha256="
\* prefix, is the digest of its body under the secret
SignatureMatches(h) ==
    LET sig == PresentedSignature(hreq[h])
        stripped == IF sig # << >> /\ sig[1] = Sha256Prefix
                    THEN SubSeq(sig, 2, Len(sig)) ELSE sig
    IN  /\ sig # << >>
        /\ stripped = <<HexHMAC(secret, hreq[h].body)>>

\* C16, as stated: with a secret, a handler is invoked only for a request
\* whose signature matches, and every POST whose signature is missing,
\* empty or not matching is answered 401, with no handler invoked and the
\* body not decoded.
C16_EveryUnsignedPostGets401 ==
    \A h \in Hooks :
        (secret # "" /\ Arrived(h)) =>
            /\ invoked[h] # << >> => SignatureMatches(h)
            /\ (hreq[h].method = "POST" /\ ~SignatureMatches(h)) =>
                  /\ hpc[h] = "done" => written[h] = <<401>>
                  /\ invoked[h] = << >>
                  /\ hevent[h] = Unset

\* C16, amended: the same of every POST whose body could be read.
C16_SignatureGuardsHandlers ==
    \A h \in Hooks :
        (secret # "" /\ Arrived(h)) =>
            /\ invoked[h] # << >> => SignatureMatches(h)
            /\ (ReadablePost(h) /\ ~SignatureMatches(h)) =>
                  /\ hpc[h] = "done" => written[h] = <<401>>
                  /\ invoked[h] = << >>
                  /\ hevent[h] = Unset

\* a POST signed with another key, for an event with a registered handler,
\* has been answered 401
C16_Witness ==
    \E h \in Hooks :
        /\ secret # ""
        /\ hpc[h] = "done"
        /\ ReadablePost(h)
        /\ hreq[h].primary = <<HexHMAC("other", hreq[h].body)>>
        /\ Registered(handlers, hreq[h].body.event_type)
        /\ written[h] = <<401>>

\* the HandleRequest call of h is past its Verify stage and was not
\* answered 401
PassedVerify(h) ==
    /\ Ran(h, "Verify")
    /\ written[h] # <<401>>

\* C17, as stated: with a secret, a POST that reaches the Verify stage
\* passes it whenever one of the two headers carries the correct digest,
\* bare or prefixed, whatever the other header holds.
C17_EitherHeaderVerifies ==
    \A h \in Hooks :
        (/\ secret # ""
         /\ ReadablePost(h)
         /\ Ran(h, "Verify")
         /\ \/ hreq[h].primary \in CorrectSignatures(secret, hreq[h].body)
            \/ hreq[h].alternate \in CorrectSignatures(secret, hreq[h].body))
            => PassedVerify(h)

\* C17, amended: it passes whenever X-Ninja-Signature carries the correct
\* digest, whatever X-Invoice-Ninja-Signature holds, and whenever
\* X-Ninja-Signature is absent or empty and X-Invoice-Ninja-Signature
\* carries the correct digest.
C17_AlternateOnlyWithoutPrimary ==
    \A h \in Hooks :
        (/\ secret # ""
         /\ ReadablePost(h)
         /\ Ran(h, "Verify")
         /\ \/ hreq[h].primary \in CorrectSignatures(secret, hreq[h].body)
            \/ /\ hreq[h].primary = << >>
               /\ hreq[h].alternate \in CorrectSignatures(secret, hreq[h].body))
            => PassedVerify(h)

\* a POST with no X-Ninja-Signature and the prefixed digest in
\* X-Invoice-Ninja-Signature has passed the Verify stage
C17_Witness ==
    \E h \in Hooks :
        /\ secret # ""
        /\ ReadablePost(h)
        /\ hreq[h].primary = << >>
        /\ hreq[h].alternate = <<Sha256Prefix, HexHMAC(secret, hreq[h].body)>>
        /\ Ran(h, "Decode-Envelope")

\* C18: when the Dispatch stage finds no handler registered for the decoded
\* event_type it answers 200 and invokes no handler, whatever is registered
\* for other event types; nothing is invoked or written after the answer.
C18_Step ==
    \A h \in Hooks :
        /\ (/\ hpc[h] = "dispatch"
            /\ hpc'[h] # "dispatch"
            /\ hevent[h].EventType \notin DOMAIN handlers) =>
              /\ hpc'[h] = "done"
              /\ written'[h] = <<200>>
              /\ invoked'[h] = << >>
        /\ hpc[h] = "done" =>
              /\ written'[h] = written[h]
              /\ invoked'[h] = invoked[h]

C18_UnregisteredAcknowledged == [][C18_Step]_vars

\* with handlers registered for both known event types, a POST of an
\* unknown event type has been answered 200 with no handler invoked
C18_Witness ==
    \E h \in Hooks :
        /\ hpc[h] = "done"
        /\ DOMAIN handlers = EventTypes
        /\ hevent[h] # Unset
        /\ hevent[h].EventType = "unknown.event"
        /\ written[h] = <<200>>
        /\ invoked[h] = << >>

\* C19: when the Dispatch stage finds a handler registered for the decoded
\* event_type, that handler is invoked once, with the event_type and data
\* of the request body, before anything is written; when it returns, 500 is
\* written if it returned an error and 200 if not, and it is not invoked
\* again.
C19_Step ==
    \A h \in Hooks :
        /\ (/\ hpc[h] = "dispatch"
            /\ hpc'[h] # "dispatch"
            /\ hevent[h].EventType \in DOMAIN handlers) =>
              /\ invoked'[h] =
                    <<[handler |-> handlers[hreq[h].body.event_type],
                       event |-> [EventType |-> hreq[h].body.event_type,
                                  Data |-> hreq[h].body.data]]>>
              /\ written'[h] = << >>
              /\ hpc'[h] # "done"
        /\ (invoked[h] # << >> /\ hpc[h] # "done" /\ hpc'[h] = "done") =>
              /\ invoked'[h] = invoked[h]
              /\ Ran(h, "Handler-Failed")' => written'[h] = <<500>>
              /\ ~Ran(h, "Handler-Failed")' => written'[h] = <<200>>
        /\ invoked[h] # << >> =>
              /\ invoked'[h] = invoked[h]
              /\ Len(invoked[h]) = 1

C19_HandlerInvokedOnce == [][C19_Step]_vars

\* a handler returned an error and 500 was written after its one
\* invocation
C19_Witness ==
    \E h \in Hooks :
        /\ hpc[h] = "done"
        /\ Len(invoked[h]) = 1
        /\ invoked[h][1].event.EventType = "payment.created"
        /\ Ran(h, "Handler-Failed")
        /\ written[h] = <<500>>

\* the stages of HandleRequest in their order
Pipeline ==
    <<"Reject-Method", "Read-Body", "Verify", "Decode-Envelope", "Dispatch">>

\* the status the first failing stage of the pipeline gives the request of
\* h, or that of the handler outcome if none fails
PipelineStatus(h) ==
    IF hreq[h].method # "POST" THEN 405
    ELSE IF ~hreq[h].readable THEN 400
    ELSE IF secret # "" /\ ~SignatureMatches(h) THEN 401
    ELSE IF ~hreq[h].body.wellFormed THEN 400
    ELSE IF Ran(h, "Handler-Failed") THEN 500
    ELSE 200

\* C20: the stages run in the order Reject-Method, Read-Body, Verify,
\* Decode-Envelope, Dispatch, each at most once; nothing is written before
\* the call ends, and a call that has ended has written exactly one status,
\* one of 200, 400, 401, 405 and 500, that of the first stage that fails.
C20_LinearPipeline ==
    \A h \in Hooks :
        /\ \A i \in 1..Len(trail[h]) :
              \/ i <= Len(Pipeline) /\ trail[h][i] = Pipeline[i]
              \/ /\ i = Len(Pipeline) + 1
                 /\ trail[h][i] \in {"Handler-Failed", "Handler-Returned"}
        /\ hpc[h] # "done" => written[h] = << >>
        /\ hpc[h] = "done" =>
              /\ Len(written[h]) = 1
              /\ written[h][1] \in {200, 400, 401, 405, 500}
              /\ written[h][1] = PipelineStatus(h)

\* with a secret, an unsigned POST of malformed JSON has been answered 401
C20_Witness ==
    \E h \in Hooks :
        /\ hpc[h] = "done"
        /\ secret # ""
        /\ ReadablePost(h)
        /\ hreq[h].body = MalformedBody
        /\ hreq[h].primary = << >>
        /\ hreq[h].alternate = << >>
        /\ written[h] = <<401>>

\* C21: the registry holds one handler for a key, that of the latest
\* registration for exactly that key; a registration sets its own key and
\* leaves the handler of every other key, one that differs in case alone
\* included, as it was; and the Dispatch stage invokes the handler the
\* registry holds for the event_type of the request, and no other.
C21_Step ==
    /\ lastOn # NoArgs =>
          /\ lastOn.eventType \in DOMAIN handlers
          /\ handlers[lastOn.eventType] = lastOn.handler
    /\ (lastOn' # lastOn \/ handlers' # handlers) =>
          /\ lastOn' # NoArgs
          /\ DOMAIN handlers' = DOMAIN handlers \cup {lastOn'.eventType}
          /\ handlers'[lastOn'.eventType] = lastOn'.handler
          /\ \A k \in DOMAIN handlers \ {lastOn'.eventType} :
                handlers'[k] = handlers[k]
    /\ \A h \in Hooks :
          (hpc[h] = "dispatch" /\ hpc'[h] # "dispatch") =>
              invoked'[h] =
                  IF hevent[h].EventType \in DOMAIN handlers
                  THEN <<[handler |-> handlers[hevent[h].EventType],
                          event |-> hevent[h]]>>
                  ELSE << >>

C21_LastRegistrationWins == [][C21_Step]_vars

\* "invoice.created" was registered with f and then again with g, beside
\* "Invoice.Created" with f; a request for "invoice.created" has invoked g
C21_Witness ==
    \E h \in Hooks :
        /\ hpc[h] = "done"
        /\ lastOn = [eventType |-> "invoice.created", handler |-> "g"]
        /\ "Invoice.Created" \in DOMAIN handlers
        /\ handlers["Invoice.Created"] = "f"
        /\ hevent[h] # Unset
        /\ hevent[h].EventType = "invoice.created"
        /\ invoked[h] = <<[handler |-> "g", event |-> hevent[h]]>>

\* ------------------------------------------------------------ error claims
\* the default message of a status code, as the claim lists them
StatedDefault(statusCode) ==
    IF statusCode = 400 THEN "bad request"
    ELSE IF statusCode = 401 THEN "unauthorized - check your API token"
    ELSE IF statusCode = 403
    THEN "forbidden - you don't have permission to access this resource"
    ELSE IF statusCode = 404 THEN "resource not found"
    ELSE IF statusCode = 422 THEN "validation error"
    ELSE IF statusCode = 429 THEN "rate limit exceeded"
    ELSE IF statusCode >= 500 THEN "server error"
    ELSE ""

\* the body of the parseAPIError calls decodes and has a message
HasMessage(body) == body.text # "" /\ body.decodes /\ body.message # ""

\* C22: every parseAPIError call returns an error with the status code it
\* was given, whose message is the message member of a body that decodes
\* with a non-empty one and else the default of the status code; calls on
\* the same arguments return the same.
C22_MessageOrDefault ==
    \A i \in 1..Len(parseRet) :
        /\ parseRet[i].StatusCode = parseArgs.statusCode
        /\ parseRet[i].Message =
              IF HasMessage(parseArgs.body) THEN parseArgs.body.message
              ELSE StatedDefault(parseArgs.statusCode)
        /\ parseRet[i] = parseRet[1]

\* the second call on a 503 whose body has a message and an errors member
\* of the wrong type has returned "server error"
C22_Witness ==
    /\ Len(parseRet) = 2
    /\ parseArgs.statusCode = 503
    /\ parseArgs.body = MistypedBody
    /\ parseRet[2].Message = "server error"

\* C23: an error returned by parseAPIError carries field errors only if its
\* status code is 422.
C23_FieldErrorsOnlyOn422 ==
    \A i \in 1..Len(parseRet) :
        parseRet[i].Errors # NilMap => parseArgs.statusCode = 422

\* ---------------------------------------------------- concurrency claims
\* the goroutine sleeps in the select of Wait, or is not inside a critical
\* section of Wait at all
OutsideCriticalSection(p) ==
    pc[p] \in {"idle", "w_lock", "w_select", "w_parked", "r_call",
               "r_select", "r_parked", "done"}

\* C24: a goroutine that sleeps in Wait or has returned from it does not
\* hold the mutex, which is free when the sleep begins; the record step is
\* made by the goroutine that holds the mutex since its prune and check, and
\* frees it; and while a goroutine holds the mutex, no step of another
\* goroutine changes the timestamp list or takes the mutex.
C24_Step ==
    \A p \in Procs :
        /\ OutsideCriticalSection(p) => mu # p
        /\ pc[p] = "w_record" => mu = p
        /\ (pc[p] = "w_lock" /\ pc'[p] = "w_select") => mu' = 0
        /\ (pc[p] = "w_record" /\ pc'[p] # "w_record") =>
              /\ requests' = Append(requests, clock)
              /\ mu' = 0
        /\ (mu = p /\ pc'[p] = pc[p]) =>
              /\ requests' = requests
              /\ mu' = p

C24_CriticalSectionIsAtomic == [][C24_Step]_vars

\* one goroutine is inside the critical section, about to record, while
\* another sleeps in the select of Wait
C24_Witness ==
    \E p, q \in Procs :
        /\ p # q
        /\ pc[p] = "w_parked"
        /\ pc[q] = "w_record"
        /\ mu = q

\* C25: on a limiter of capacity 1 or more, under a fair scheduler and
\* advancing time, every Wait call returns, whatever calls the other
\* goroutines make on the limiter.
C25_NoCallerStarves ==
    \A p \in Procs : InWait(p) ~> ~InWait(p)

\* C26: in a DoRequestWithRetry call every doRequest call comes right after
\* an admission of its own: a timestamp is recorded for the attempt, then
\* doRequest is called, so that the admissions recorded for the call number
\* its doRequest calls, one more while an admitted attempt has not called
\* yet; a Wait that returns ctx.Err() ends the call without a doRequest
\* call.
C26_Step ==
    \A p \in Procs :
        InRetry(p)' =>
            /\ recorded'[p] = calls'[p] + (IF pc'[p] = "r_call" THEN 1 ELSE 0)
            /\ calls'[p] # calls[p] =>
                  /\ pc[p] = "r_call"
                  /\ calls'[p] = calls[p] + 1
                  /\ recorded[p] = calls'[p]
            /\ recorded'[p] # recorded[p] =>
                  /\ pc'[p] = "r_call"
                  /\ recorded'[p] = recorded[p] + 1
            /\ WaitReturnsCtxErr(p) =>
                  /\ calls'[p] = calls[p]
                  /\ recorded'[p] = recorded[p]

C26_AdmissionBeforeEachCall == [][C26_Step]_vars

\* a call has made two doRequest calls on two admissions, the second one
\* after a sleep in the limiter
C26_Witness ==
    \E p \in Procs :
        /\ InRetry(p)
        /\ pc[p] = "done"
        /\ calls[p] = 2
        /\ recorded[p] = 2
        /\ slept[p]

\* what belongs to the HandleRequest call of h
CallState(h) ==
    <<hpc[h], hreq[h], hbody[h], hevent[h], hhandler[h], written[h],
      invoked[h], trail[h]>>

\* the handler invocations the request of h leads to when it is handled
\* alone
SoloInvocations(h) ==
    LET b == hreq[h].body
    IN  IF /\ hreq[h].method = "POST"
           /\ hreq[h].readable
           /\ secret = "" \/ SignatureMatches(h)
           /\ b.wellFormed
           /\ b.event_type \in DOMAIN handlers
        THEN <<[handler |-> handlers[b.event_type],
                event |-> [EventType |-> b.event_type, Data |-> b.data]]>>
        ELSE << >>

\* C27: a step of a HandleRequest call changes neither the secret nor the
\* registry, nor anything that belongs to another HandleRequest call; and a
\* call that ends beside other calls has written the status and made the
\* handler invocation that its request, the secret, the registry and the
\* outcome of its handler give when it is handled alone.
C27_Step ==
    \A h \in Hooks :
        CallState(h)' # CallState(h) =>
            /\ secret' = secret
            /\ handlers' = handlers
            /\ \A g \in Hooks \ {h} : CallState(g)' = CallState(g)
            /\ hpc'[h] = "done" =>
                  /\ written'[h] = <<PipelineStatus(h)'>>
                  /\ invoked'[h] = SoloInvocations(h)'

C27_ConcurrentCallsIndependent == [][C27_Step]_vars

\* two HandleRequest calls are inside the handlers of two event types at
\* once
C27_Witness ==
    /\ hpc[1] = "handling"
    /\ hpc[2] = "handling"
    /\ hevent[1].EventType = "invoice.created"
    /\ hevent[2].EventType = "payment.created"
    /\ hhandler[1] # hhandler[2]

\* C28: a DoRequestWithRetry call makes a further doRequest call only if
\* its latest attempt failed in transport or was answered with a status of
\* RetryOnStatusCodes; after an attempt the server answered with a status
\* below 400, decoded or not, no doRequest call follows.
C28_Step ==
    \A p \in Procs :
        (InRetry(p) /\ calls[p] >= 1 /\ calls'[p] = calls[p] + 1) =>
            \/ lastErr[p] = NetErr
            \/ /\ IsAPIError(lastErr[p])
               /\ lastErr[p].StatusCode \in retryConfig.RetryOnStatusCodes

C28_ResendOnlyAfterFailure == [][C28_Step]_vars

\* C29: under every retry configuration, one with a negative MaxRetries
\* included, a DoRequestWithRetry call returns nil only in the step in which
\* a doRequest call of its own returns nil, so never without a doRequest
\* call.
C29_Step ==
    \A p \in Procs :
        (/\ InRetry(p)'
         /\ pc[p] # "done"
         /\ pc'[p] = "done"
         /\ result'[p] = NilErr) =>
            /\ pc[p] = "r_call"
            /\ calls'[p] = calls[p] + 1

C29_SuccessOnlyFromExecutor == [][C29_Step]_vars

\* C30: on every limiter, one of capacity 0 included, no Wait call ends in
\* a run-time panic, and the mutex is held only by a goroutine between its
\* limit check and its append.
C30_WaitEndsNormally ==
    \A p \in Procs :
        /\ pc[p] # "panic"
        /\ mu = p => pc[p] = "w_record"
====
